---- MODULE Spec2Model ----
(***************************************************************************)
(* git-fetch-all: the concurrent tree-walking fetch engine of              *)
(* src/src/git_fetch_all/git_fetch_all.py and its two entry points.        *)
(*                                                                         *)
(* One asyncio event loop runs two kinds of tasks: one walk task per       *)
(* call of fetch_remotes_in_subfolders (keyed by its folder) and one fetch *)
(* task per call of fetch_remote (keyed by (folder, remote name)).  A task *)
(* runs from one await to the next without interruption, so every action   *)
(* below is the code between two awaits of one task.                       *)
(***************************************************************************)
EXTENDS Integers, Sequences, FiniteSets, TLC

(***************************************************************************)
(* Bounds of the explored inputs.                                          *)
(***************************************************************************)
MaxDepth == 2
MaxEntries == 2
MaxRecurse == 2
MaxInfos == 3
MaxInfosWalk == 1

(***************************************************************************)
(* Directory names are sequences of characters, a path is the sequence of  *)
(* names below base_dir; base_dir itself is the empty path.                *)
(***************************************************************************)
Names == {<<"a">>, <<"b">>, <<".", "h">>}

RECURSIVE PathsOfLen(_)
PathsOfLen(n) ==
    IF n = 0 THEN {<<>>}
    ELSE {Append(p, nm) : p \in PathsOfLen(n - 1), nm \in Names}

Paths == UNION {PathsOfLen(n) : n \in 0..MaxDepth}

base_dir == <<>>

Parent(p) == SubSeq(p, 1, Len(p) - 1)

name(p) == p[Len(p)]

Children(p) == {c \in Paths : Len(c) = Len(p) + 1 /\ Parent(c) = p}

\* q is p or lies below p
IsUnder(q, p) == Len(q) >= Len(p) /\ SubSeq(q, 1, Len(p)) = p

(***************************************************************************)
(* The directory trees: at most MaxEntries entries below base_dir, each a  *)
(* plain file, a directory, or a directory that is a repository root.      *)
(***************************************************************************)
EntryKinds == {"file", "dir", "repo"}

RECURSIVE EntrySets(_)
EntrySets(n) ==
    IF n = 0 THEN {{}}
    ELSE LET prev == EntrySets(n - 1)
         IN  prev \cup
             UNION {{S \cup {p} : p \in {q \in Paths \ {base_dir} :
                                           Parent(q) \in S \cup {base_dir}}}
                    : S \in prev}

HasChildIn(p, S) == \E c \in S : Len(c) > 0 /\ Parent(c) = p

KindsOn(S) ==
    {f \in [S -> EntryKinds] : \A p \in S : HasChildIn(p, S) => f[p] # "file"}

TreesOn(S) ==
    {[p \in Paths |-> IF p = base_dir THEN rk
                      ELSE IF p \in S THEN k[p] ELSE "none"] :
       rk \in {"dir", "repo"}, k \in KindsOn(S)}

Trees == UNION {TreesOn(S) : S \in EntrySets(MaxEntries)}

(***************************************************************************)
(* Python values.                                                          *)
(***************************************************************************)
\* Optional[list]: None, or a list
None == [is_none |-> TRUE, items |-> <<>>]
List(s) == [is_none |-> FALSE, items |-> s]

\* x in lst
In(x, lst) == \E i \in DOMAIN lst : lst[i] = x

\* a bool, or an exception instance of class cls
PyBool(b) == [cls |-> "bool", val |-> b]
PyExc(c) == [cls |-> c, val |-> FALSE]

\* the direct base class of each class that occurs
Base(c) ==
    CASE c = "GitCommandError" -> "Exception"
      [] c = "InvalidGitRepositoryError" -> "Exception"
      [] c = "TypeError" -> "Exception"
      [] c = "Exception" -> "BaseException"
      [] c = "CancelledError" -> "BaseException"
      [] c = "KeyboardInterrupt" -> "BaseException"
      [] OTHER -> "object"

RECURSIVE IsSubclass(_, _)
IsSubclass(c, d) ==
    IF c = d THEN TRUE
    ELSE IF c = "object" THEN FALSE
    ELSE IsSubclass(Base(c), d)

isinstance(v, d) == IsSubclass(v.cls, d)

\* what remote.fetch can raise and a task can end with
RaisedClasses == {"GitCommandError", "TypeError", "CancelledError"}

\* what remote.fetch can raise and the event loop re-raises at once
InterruptClasses == {"KeyboardInterrupt"}

RemoteNames == {"origin", "backup"}

Keys == Paths \X RemoteNames

\* a result set: dict[(Path, RemoteName) -> Exception | bool]
EmptyDict == [k \in {} |-> PyBool(FALSE)]

\* d1 | d2
DictMerge(d1, d2) ==
    [k \in DOMAIN d1 \cup DOMAIN d2 |->
        IF k \in DOMAIN d2 THEN d2[k] ELSE d1[k]]

(***************************************************************************)
(* fetch_remote: the return value computed from what remote.fetch returned *)
(***************************************************************************)
FlagValues == {0, 2, 4, 12}

FetchInfosUpTo(m) == UNION {[1..n -> FlagValues] : n \in 0..m}

FetchInfos == FetchInfosUpTo(MaxInfos)

\* (info.flags >> 2) % 2
UpToDateBit(flags) == (flags \div 4) % 2

all_uptodate_any(res) == \E i \in DOMAIN res : UpToDateBit(res[i]) = 1

all_uptodate(res) == \A i \in DOMAIN res : UpToDateBit(res[i]) = 1

fetch_remote(res) == PyBool(~ all_uptodate(res))

(***************************************************************************)
(* fetch_single_repo: the include/exclude filter on repo.remotes           *)
(***************************************************************************)
surviving_remotes_no_exclude(remotes, include, exclude) ==
    IF include.is_none THEN remotes
    ELSE SelectSeq(remotes, LAMBDA r : In(r, include.items))

surviving_remotes(remotes, include, exclude) ==
    LET r1 == IF include.is_none THEN remotes
              ELSE SelectSeq(remotes, LAMBDA r : In(r, include.items))
    IN  IF exclude.is_none THEN r1
        ELSE SelectSeq(r1, LAMBDA r : ~ In(r, exclude.items))

Range(s) == {s[i] : i \in DOMAIN s}

\* repo.remotes of every repository of the tree
remotes == <<"origin", "backup">>

VARIABLES
    kind,              \* the directory tree: path -> none / file / dir / repo
    recurse,           \* the arguments of the top-level call
    include_remotes,
    exclude_remotes,
    exclude_dirnames,
    walk,              \* the fetch_remotes_in_subfolders task of each folder
    fetch,             \* the fetch_remote task of each (folder, remote)
    probed,            \* folders Repo(folder) was called on
    globbed,           \* folders whose children were enumerated
    fetch_calls,       \* number of calls of remote.fetch per (folder, remote)
    proc,              \* the process: running, or exited with a status
    res                \* what remote.fetch returned to the one fetch_remote
                       \* call of SpecFetchRemote

vars == <<kind, recurse, include_remotes, exclude_remotes, exclude_dirnames,
          walk, fetch, probed, globbed, fetch_calls, proc, res>>

inputs == <<kind, recurse, include_remotes, exclude_remotes, exclude_dirnames,
            res>>

\* a pathlib path: whether it is absolute, and its components below base_dir
Path(absolute, parts) == [absolute |-> absolute, parts |-> parts]

\* base_dir as it can be passed: an absolute path, or a relative one such as
\* the default "."
BaseDirArgs == {Path(TRUE, <<>>), Path(FALSE, <<>>)}

NoWalk == [st |-> "none", folder |-> Path(FALSE, <<>>), recurse |-> 0,
           exclude_dirnames |-> None,
           head |-> FALSE, result |-> EmptyDict, exc |-> "none"]

NoFetch == [st |-> "none", outcome |-> PyBool(FALSE)]

Running == [st |-> "running", entry |-> "none", status |-> 0,
            returned |-> FALSE, quiet |-> FALSE, color |-> FALSE,
            printed |-> EmptyDict]

IncludeArgs == {None, List(<<"origin">>)}

ExcludeArgs == {None, List(<<"origin">>)}

ExcludeDirArgs == {None, List(<<<<"a">>>>)}

\* the call fetch_remotes_in_subfolders(folder, recurse, ..., exclude_dirnames,
\* _recursive_head=head), not yet run
NewWalk(rec, excl, head) ==
    [NoWalk EXCEPT !.st = "pending", !.recurse = rec,
                   !.exclude_dirnames = excl, !.head = head]

\* exclude_dirnames or []
or_empty(lst) == IF lst.is_none \/ lst.items = <<>> THEN <<>> ELSE lst.items

\* the exclude_dirnames argument of the calls on the subfolders
subfolder_exclude_dirnames_same(excl) == excl

subfolder_exclude_dirnames(excl) == List(<<>>)

Init ==
    /\ kind \in Trees
    /\ recurse \in -1..MaxRecurse
    /\ include_remotes \in IncludeArgs
    /\ exclude_remotes \in ExcludeArgs
    /\ exclude_dirnames \in ExcludeDirArgs
    /\ walk = [p \in Paths |->
                 IF p = base_dir
                 THEN [NewWalk(recurse, exclude_dirnames, TRUE)
                         EXCEPT !.folder = Path(TRUE, <<>>)]
                 ELSE NoWalk]
    /\ fetch = [k \in Keys |-> NoFetch]
    /\ probed = {}
    /\ globbed = {}
    /\ fetch_calls = [k \in Keys |-> 0]
    /\ proc = Running
    /\ res = <<>>

(***************************************************************************)
(* fetch_remotes_in_subfolders, from its start to its first await          *)
(***************************************************************************)
\* a probe that finds no repository anywhere
Repo_raises_always(p) == "InvalidGitRepositoryError"

\* Repo(folder, search_parent_directories=False) raises this class, or "none"
Repo_raises(p) ==
    IF kind[p] = "repo" THEN "none" ELSE "InvalidGitRepositoryError"

\* the except clause of the probe
except_probe_nothing(c) == FALSE

except_probe(c) == IsSubclass(c, "InvalidGitRepositoryError")

\* folder.name.startswith(".")
startswith_dot(nm) == Len(nm) > 0 /\ nm[1] = "."

is_dir(p) == kind[p] \in {"dir", "repo"}

\* the path that folder.glob("*") yields for the entry c of folder, made
\* absolute
glob_path_resolved(folder, c) == Path(TRUE, Append(folder.parts, name(c)))

\* the path that folder.glob("*") yields for the entry c of folder: folder
\* joined with the name of the entry
glob_path(folder, c) == Path(folder.absolute, Append(folder.parts, name(c)))

\* folder.glob("*")
glob(p) == {c \in Children(p) : kind[c] # "none"}

\* the filter of the subfolders without the test of the leading "."
descend_candidates_hidden_too(p, excl) ==
    {c \in glob(p) : /\ is_dir(c)
                     /\ ~ In(name(c), excl)}

descend_candidates(p, excl) ==
    {c \in glob(p) : /\ is_dir(c)
                     /\ ~ startswith_dot(name(c))
                     /\ ~ In(name(c), excl)}

\* the recurse argument of the calls on the subfolders
subfolder_recurse_same(rec) == rec

subfolder_recurse(rec) == rec - 1

\* the walk returns d / raises an exception of class c
Return(w, d) == [w EXCEPT !.st = "done", !.result = d]

Raise(w, c) == [w EXCEPT !.st = "raised", !.exc = c]

WalkStart(p) ==
    /\ proc.st = "running"
    /\ walk[p].st = "pending"
    /\ probed' = probed \cup {p}
    /\ LET raised == Repo_raises(p)
           excl == or_empty(walk[p].exclude_dirnames)
       IN
       IF raised # "none" /\ ~ except_probe(raised)
       THEN /\ walk' = [walk EXCEPT ![p] = Raise(@, raised)]
            /\ UNCHANGED <<fetch, globbed>>
       ELSE IF raised = "none"
       THEN LET rs == surviving_remotes(remotes, include_remotes,
                                        exclude_remotes)
            IN  /\ fetch' = [k \in Keys |->
                               IF k[1] = p /\ In(k[2], rs)
                               THEN [NoFetch EXCEPT !.st = "pending"]
                               ELSE fetch[k]]
                /\ walk' = [walk EXCEPT ![p] =
                               IF rs = <<>> THEN Return(@, EmptyDict)
                               ELSE [@ EXCEPT !.st = "await_fetches"]]
                /\ UNCHANGED globbed
       ELSE IF walk[p].recurse = 0
       THEN /\ walk' = [walk EXCEPT ![p] = Return(@, EmptyDict)]
            /\ UNCHANGED <<fetch, globbed>>
       ELSE LET folders == descend_candidates(p, excl)
            IN  /\ globbed' = globbed \cup {p}
                /\ walk' = [q \in Paths |->
                              IF q = p
                              THEN IF folders = {}
                                   THEN Return(walk[p], EmptyDict)
                                   ELSE [walk[p] EXCEPT
                                            !.st = "await_subfolders"]
                              ELSE IF q \in folders
                              THEN [NewWalk(
                                        subfolder_recurse(walk[p].recurse),
                                        subfolder_exclude_dirnames(
                                            walk[p].exclude_dirnames),
                                        FALSE)
                                    EXCEPT !.folder =
                                        glob_path(walk[p].folder, q)]
                              ELSE walk[q]]
                /\ UNCHANGED fetch
    /\ UNCHANGED <<inputs, fetch_calls, proc>>

(***************************************************************************)
(* fetch_remote                                                            *)
(***************************************************************************)
\* remote.fetch called once on the loop and once more on the worker thread
FetchStartCallsTwice(k) ==
    /\ proc.st = "running"
    /\ fetch[k].st = "pending"
    /\ fetch' = [fetch EXCEPT ![k].st = "in_flight"]
    /\ fetch_calls' = [fetch_calls EXCEPT ![k] = @ + 2]
    /\ UNCHANGED <<inputs, walk, probed, globbed, proc>>

\* a fetch that starts only when no other fetch is in flight
FetchStartOneAtATime(k) ==
    /\ proc.st = "running"
    /\ fetch[k].st = "pending"
    /\ \A k2 \in Keys : fetch[k2].st # "in_flight"
    /\ fetch' = [fetch EXCEPT ![k].st = "in_flight"]
    /\ fetch_calls' = [fetch_calls EXCEPT ![k] = @ + 1]
    /\ UNCHANGED <<inputs, walk, probed, globbed, proc>>

\* up to the await: remote.fetch is handed to a worker thread
FetchStart(k) ==
    /\ proc.st = "running"
    /\ fetch[k].st = "pending"
    /\ fetch' = [fetch EXCEPT ![k].st = "in_flight"]
    /\ fetch_calls' = [fetch_calls EXCEPT ![k] = @ + 1]
    /\ UNCHANGED <<inputs, walk, probed, globbed, proc>>

\* remote.fetch returned r
FetchReturn(k) ==
    /\ proc.st = "running"
    /\ fetch[k].st = "in_flight"
    /\ \E r \in FetchInfosUpTo(MaxInfosWalk) :
          fetch' = [fetch EXCEPT ![k] = [st |-> "done",
                                         outcome |-> fetch_remote(r)]]
    /\ UNCHANGED <<inputs, walk, probed, globbed, fetch_calls, proc>>

\* remote.fetch raised an exception of class c, which the task ends with
FetchRaise(k) ==
    /\ proc.st = "running"
    /\ fetch[k].st = "in_flight"
    /\ \E c \in RaisedClasses :
          fetch' = [fetch EXCEPT ![k] = [st |-> "done", outcome |-> PyExc(c)]]
    /\ UNCHANGED <<inputs, walk, probed, globbed, fetch_calls, proc>>

\* the exit status of a process that ends on KeyboardInterrupt: the signal
\* status under main, the abort status of the command runner under cli
interrupt_exit(entry) == IF entry = "main" THEN 130 ELSE 1

\* remote.fetch raised KeyboardInterrupt: the fetch task re-raises it through
\* the event loop, asyncio.run raises it and the process ends
FetchInterrupt(k) ==
    /\ proc.st = "running"
    /\ fetch[k].st = "in_flight"
    /\ \E c \in InterruptClasses :
          fetch' = [fetch EXCEPT ![k] = [st |-> "done", outcome |-> PyExc(c)]]
    /\ \E entry \in {"main", "cli"} :
          proc' = [Running EXCEPT !.st = "exited", !.entry = entry,
                                 !.status = interrupt_exit(entry)]
    /\ UNCHANGED <<inputs, walk, probed, globbed, fetch_calls>>

(***************************************************************************)
(* fetch_single_repo after its gather, and the return of the walk of a     *)
(* repository                                                              *)
(***************************************************************************)
\* the first value of the gathered results that is re-raised, or 0
RECURSIVE FirstReraisedAnyError(_, _, _)
FirstReraisedAnyError(p, rs, i) ==
    IF i > Len(rs) THEN 0
    ELSE LET v == fetch[<<p, rs[i]>>].outcome
         IN  IF isinstance(v, "BaseException")
             THEN i
             ELSE FirstReraisedAnyError(p, rs, i + 1)

FirstReraisedNever(p, rs, i) == 0

RECURSIVE FirstReraised(_, _, _)
FirstReraised(p, rs, i) ==
    IF i > Len(rs) THEN 0
    ELSE LET v == fetch[<<p, rs[i]>>].outcome
         IN  IF isinstance(v, "BaseException") /\ ~ isinstance(v, "Exception")
             THEN i
             ELSE FirstReraised(p, rs, i + 1)

\* the key of a remote of the repository at folder
ResultKeyNoFolder(folder, remote) == <<base_dir, remote>>

ResultKey(folder, remote) == <<folder, remote>>

\* {(folder, remote): status for remote, status in result.items()}
repo_result_no_failed(p, rs) ==
    [k \in {ResultKey(p, rs[j]) :
              j \in {i \in DOMAIN rs :
                       ~ isinstance(fetch[<<p, rs[i]>>].outcome, "Exception")}}
       |-> fetch[<<p, k[2]>>].outcome]

\* the gathered statuses zipped to the remote names in the opposite order
repo_result_misaligned(p, rs) ==
    [k \in {ResultKey(p, rs[j]) : j \in DOMAIN rs} |->
        LET j == CHOOSE i \in DOMAIN rs : rs[i] = k[2]
        IN  fetch[<<p, rs[Len(rs) + 1 - j]>>].outcome]

repo_result(p, rs) ==
    [k \in {ResultKey(p, rs[j]) : j \in DOMAIN rs} |->
        fetch[<<p, k[2]>>].outcome]

GatherFetches(p) ==
    /\ proc.st = "running"
    /\ walk[p].st = "await_fetches"
    /\ LET rs == surviving_remotes(remotes, include_remotes, exclude_remotes)
           i == FirstReraised(p, rs, 1)
       IN  /\ \A j \in DOMAIN rs : fetch[<<p, rs[j]>>].st = "done"
           /\ walk' = [walk EXCEPT ![p] =
                 IF i # 0
                 THEN Raise(@, fetch[<<p, rs[i]>>].outcome.cls)
                 ELSE Return(@, repo_result(p, rs))]
    /\ UNCHANGED <<inputs, fetch, probed, globbed, fetch_calls, proc>>

(***************************************************************************)
(* fetch_remotes_in_subfolders after the gather of its subfolders          *)
(***************************************************************************)
Subwalks(p) == {c \in Children(p) : walk[c].st # "none"}

\* fetched = fetched | subfolder_result, over the results in order
RECURSIVE MergeAll(_, _)
MergeAll(order, i) ==
    IF i = 0 THEN EmptyDict
    ELSE DictMerge(MergeAll(order, i - 1), walk[order[i]].result)

\* the orders glob may have listed the subfolders in
Orders(S) ==
    {o \in [1..Cardinality(S) -> S] : \A c \in S : \E i \in DOMAIN o : o[i] = c}

\* a wait that ends with the first subfolder walk that returns
GatherSubfoldersFirstCompleted(p) ==
    /\ proc.st = "running"
    /\ walk[p].st = "await_subfolders"
    /\ \E c \in Subwalks(p) : walk[c].st = "done"
    /\ \E order \in Orders(Subwalks(p)) :
          walk' = [walk EXCEPT ![p] = Return(@, MergeAll(order, Len(order)))]
    /\ UNCHANGED <<inputs, fetch, probed, globbed, fetch_calls, proc>>

GatherSubfolders(p) ==
    /\ proc.st = "running"
    /\ walk[p].st = "await_subfolders"
    /\ \A c \in Subwalks(p) : walk[c].st = "done"
    /\ \E order \in Orders(Subwalks(p)) :
          walk' = [walk EXCEPT ![p] = Return(@, MergeAll(order, Len(order)))]
    /\ UNCHANGED <<inputs, fetch, probed, globbed, fetch_calls, proc>>

\* an await that a raising subfolder walk never ends
GatherSubfoldersRaiseNever(p) == FALSE /\ UNCHANGED vars

\* gather without return_exceptions: the first subfolder walk that raises
\* ends the await with its exception, the other walks go on
GatherSubfoldersRaise(p) ==
    /\ proc.st = "running"
    /\ walk[p].st = "await_subfolders"
    /\ \E c \in Subwalks(p) :
          /\ walk[c].st = "raised"
          /\ walk' = [walk EXCEPT ![p] = Raise(@, walk[c].exc)]
    /\ UNCHANGED <<inputs, fetch, probed, globbed, fetch_calls, proc>>

(***************************************************************************)
(* The entry points                                                        *)
(***************************************************************************)
\* one iteration of the loop of print_report: what is printed for an entry
report_line(v, color) ==
    LET fail == isinstance(v, "Exception")
    IN  [status |-> IF fail THEN "failed"
                    ELSE IF v.val THEN "updated" ELSE "up-to-date",
         red |-> color /\ fail,
         detail |-> IF fail THEN v.cls ELSE "none"]

\* print_report without the test of quiet
print_report_ignores_quiet(fetch_results, quiet, color) ==
    LET shown == DOMAIN fetch_results
    IN  [printed |-> [k \in shown |-> report_line(fetch_results[k], color)],
         error |-> \E k \in shown : isinstance(fetch_results[k], "Exception")]

print_report(fetch_results, quiet, color) ==
    LET shown == {k \in DOMAIN fetch_results :
                    ~ (quiet /\ ~ isinstance(fetch_results[k], "Exception"))}
    IN  [printed |-> [k \in shown |-> report_line(fetch_results[k], color)],
         error |-> \E k \in shown : isinstance(fetch_results[k], "Exception")]

\* sys.exit(main()): the exit status of a bool
sys_exit(arg) == IF arg THEN 1 ELSE 0

\* an exception that leaves the program
uncaught_exit == 1

\* app(prog_name=...): the command runs in standalone mode, which drops the
\* value rv the command returned and exits with status 0
standalone_exit(rv) == 0

\* any(isinstance(res, Exception) for res in fetch_results.values())
failed_fatches(fetch_results) ==
    \E k \in DOMAIN fetch_results : isinstance(fetch_results[k], "Exception")

\* main of git_fetch_all.py, after asyncio.run
MainExit ==
    /\ proc.st = "running"
    /\ walk[base_dir].st \in {"done", "raised"}
    /\ \E quiet \in BOOLEAN, color \in BOOLEAN :
          LET rep == print_report(walk[base_dir].result, quiet, color)
          IN  proc' =
                IF walk[base_dir].st = "raised"
                THEN [Running EXCEPT !.st = "exited", !.entry = "main",
                         !.status = uncaught_exit, !.quiet = quiet,
                         !.color = color]
                ELSE [st |-> "exited", entry |-> "main",
                      status |-> sys_exit(rep.error), returned |-> TRUE,
                      quiet |-> quiet, color |-> color,
                      printed |-> rep.printed]
    /\ UNCHANGED <<inputs, walk, fetch, probed, globbed, fetch_calls>>

\* the typer command of cli.py, run by app(prog_name="git-fetch-all"); its
\* format_report is taken to report the entries print_report prints
CliExit ==
    /\ proc.st = "running"
    /\ walk[base_dir].st \in {"done", "raised"}
    /\ \E quiet \in BOOLEAN, color \in BOOLEAN :
          LET rep == print_report(walk[base_dir].result, quiet, color)
          IN  proc' =
                IF walk[base_dir].st = "raised"
                THEN [Running EXCEPT !.st = "exited", !.entry = "cli",
                         !.status = uncaught_exit, !.quiet = quiet,
                         !.color = color]
                ELSE [st |-> "exited", entry |-> "cli",
                      status |-> standalone_exit(
                                    failed_fatches(walk[base_dir].result)),
                      returned |-> TRUE,
                      quiet |-> quiet, color |-> color,
                      printed |-> rep.printed]
    /\ UNCHANGED <<inputs, walk, fetch, probed, globbed, fetch_calls>>

Next ==
    \/ \E p \in Paths : WalkStart(p)
    \/ \E k \in Keys : FetchStart(k)
    \/ \E k \in Keys : FetchReturn(k)
    \/ \E k \in Keys : FetchRaise(k)
    \/ \E k \in Keys : FetchInterrupt(k)
    \/ \E p \in Paths : GatherFetches(p)
    \/ \E p \in Paths : GatherSubfolders(p)
    \/ \E p \in Paths : GatherSubfoldersRaise(p)
    \/ MainExit
    \/ CliExit

Spec == Init /\ [][Next]_vars

(***************************************************************************)
(* The calls with base_dir passed as an absolute or as a relative path,    *)
(* for one choice of the filters                                           *)
(***************************************************************************)
InitBaseDir ==
    /\ kind \in Trees
    /\ recurse \in -1..MaxRecurse
    /\ include_remotes = List(<<"origin">>)
    /\ exclude_remotes = None
    /\ exclude_dirnames = None
    /\ \E folder \in BaseDirArgs :
          walk = [p \in Paths |->
                    IF p = base_dir
                    THEN [NewWalk(recurse, exclude_dirnames, TRUE)
                            EXCEPT !.folder = folder]
                    ELSE NoWalk]
    /\ fetch = [k \in Keys |-> NoFetch]
    /\ probed = {}
    /\ globbed = {}
    /\ fetch_calls = [k \in Keys |-> 0]
    /\ proc = Running
    /\ res = <<>>

SpecBaseDir == InitBaseDir /\ [][Next]_vars

\* The event loop runs every callback that is ready, and a fetch that was
\* started returns or raises: a step that can be taken is eventually taken.
SpecFair == InitBaseDir /\ [][Next]_vars /\ WF_vars(Next)

(***************************************************************************)
(* fetch_remote alone: one call, on every sequence of indicators           *)
(***************************************************************************)
TheKey == <<base_dir, "origin">>

InitFetchRemote ==
    /\ res \in FetchInfos
    /\ kind = [p \in Paths |-> IF p = base_dir THEN "repo" ELSE "none"]
    /\ recurse = 0
    /\ include_remotes = List(<<"origin">>)
    /\ exclude_remotes = None
    /\ exclude_dirnames = None
    /\ walk = [p \in Paths |->
                 IF p = base_dir
                 THEN [NewWalk(0, None, TRUE) EXCEPT !.st = "await_fetches"]
                 ELSE NoWalk]
    /\ fetch = [k \in Keys |->
                  IF k = TheKey THEN [NoFetch EXCEPT !.st = "in_flight"]
                  ELSE NoFetch]
    /\ probed = {base_dir}
    /\ globbed = {}
    /\ fetch_calls = [k \in Keys |-> IF k = TheKey THEN 1 ELSE 0]
    /\ proc = Running

\* remote.fetch returned res
FetchRemoteReturn ==
    /\ fetch[TheKey].st = "in_flight"
    /\ fetch' = [fetch EXCEPT ![TheKey] = [st |-> "done",
                                           outcome |-> fetch_remote(res)]]
    /\ UNCHANGED <<inputs, walk, probed, globbed, fetch_calls, proc>>

NextFetchRemote == FetchRemoteReturn

SpecFetchRemote == InitFetchRemote /\ [][NextFetchRemote]_vars

(***************************************************************************)
(* Vocabulary of the properties                                            *)
(***************************************************************************)
\* a remote name passes the filters, stated on the two lists
Survives(r) ==
    /\ include_remotes.is_none \/ In(r, include_remotes.items)
    /\ exclude_remotes.is_none \/ ~ In(r, exclude_remotes.items)

SurvivingNames == {r \in Range(remotes) : Survives(r)}

\* the repositories the walk has found so far
Discovered == {p \in probed : kind[p] = "repo"}

\* an exception that is no Exception: a cancellation
Foreign(v) == isinstance(v, "BaseException") /\ ~ isinstance(v, "Exception")

Failed(v) == isinstance(v, "Exception")

RootDone == walk[base_dir].st = "done"

RootResult == walk[base_dir].result

KeysOf(d, p) == {k \in DOMAIN d : k[1] = p}

RECURSIVE SumOfSizes(_)
SumOfSizes(S) ==
    IF S = {} THEN 0
    ELSE LET c == CHOOSE x \in S : TRUE
         IN  Cardinality(DOMAIN walk[c].result) + SumOfSizes(S \ {c})

\* bit 2 of a flags value, the "up to date" flag
HasUpToDateFlag(flags) == (flags % 8) >= 4

(***************************************************************************)
(* C1: a fetch that raises an Exception of the fetch domain never makes a  *)
(* walk raise (a walk raises only over a fetch below it that ended with a  *)
(* non-Exception), and when the top-level call has returned, every         *)
(* surviving remote of every discovered repository has been fetched and    *)
(* its key maps to its own outcome, the raised error for a failed fetch.   *)
(***************************************************************************)
C1_FetchErrorIsolated ==
    /\ \A p \in Paths :
          walk[p].st = "raised" =>
             \E k \in Keys : /\ IsUnder(k[1], p)
                             /\ fetch[k].st = "done"
                             /\ Foreign(fetch[k].outcome)
    /\ RootDone =>
          \A p \in Discovered : \A r \in SurvivingNames :
             /\ fetch[<<p, r>>].st = "done"
             /\ <<p, r>> \in DOMAIN RootResult
             /\ RootResult[<<p, r>>] = fetch[<<p, r>>].outcome

C1_Witness ==
    /\ RootDone
    /\ \E k1 \in DOMAIN RootResult, k2 \in DOMAIN RootResult,
          k3 \in DOMAIN RootResult :
          /\ RootResult[k1] = PyExc("GitCommandError")
          /\ k2[1] = k1[1] /\ k2 # k1 /\ RootResult[k2].cls = "bool"
          /\ k3[1] # k1[1] /\ RootResult[k3].cls = "bool"

(***************************************************************************)
(* C2, as stated: no error outside the fetch domain, a programming error   *)
(* (TypeError) or a cancellation (CancelledError), is ever a value of a    *)
(* returned result set.                                                    *)
(***************************************************************************)
C2_NoForeignOrProgrammingErrorRecorded ==
    \A p \in Paths :
       walk[p].st = "done" =>
          \A k \in DOMAIN walk[p].result :
             walk[p].result[k].cls \notin {"TypeError", "CancelledError"}

(***************************************************************************)
(* C2, amended: an error raised by a fetch that is a BaseException but no  *)
(* Exception (a cancellation) is never a value of a returned result set,   *)
(* no walk over such a fetch returns, and the process that exits after it  *)
(* has no result set; an Exception raised by a fetch, a programming error  *)
(* included, is recorded as the outcome of its key.                        *)
(***************************************************************************)
C2_CancellationPropagates ==
    /\ \A p \in Paths :
          walk[p].st = "done" =>
             /\ \A k \in DOMAIN walk[p].result : ~ Foreign(walk[p].result[k])
             /\ \A k \in Keys :
                   IsUnder(k[1], p) /\ fetch[k].st = "done"
                      => ~ Foreign(fetch[k].outcome)
    /\ \A p \in Paths :
          walk[p].st = "raised" => walk[p].exc = "CancelledError"
    /\ (proc.st = "exited" /\ \E k \in Keys : /\ fetch[k].st = "done"
                                              /\ Foreign(fetch[k].outcome))
          => ~ proc.returned /\ proc.status # 0
    /\ \A p \in Discovered :
          walk[p].st = "done" =>
             \A r \in SurvivingNames :
                Failed(fetch[<<p, r>>].outcome) =>
                   walk[p].result[<<p, r>>] = fetch[<<p, r>>].outcome

C2_Witness ==
    /\ proc.st = "exited" /\ ~ proc.returned
    /\ walk[base_dir].st = "raised"
    /\ \E p \in Paths \ {base_dir} :
          /\ walk[p].st = "raised"
          /\ \E r \in RemoteNames :
                fetch[<<p, r>>].outcome = PyExc("CancelledError")
          /\ \E r \in RemoteNames :
                fetch[<<p, r>>].outcome = PyExc("TypeError")

(***************************************************************************)
(* C3: when the top-level call has returned, the keys of the result that   *)
(* carry the path of a discovered repository are exactly one per surviving *)
(* remote name of that repository, N keys for N surviving remotes, for     *)
(* every mix of outcomes; the same holds of the result of the walk of the  *)
(* repository itself.                                                      *)
(***************************************************************************)
C3_OneKeyPerSurvivingRemote ==
    /\ RootDone =>
          \A p \in Discovered :
             /\ KeysOf(RootResult, p) = {<<p, r>> : r \in SurvivingNames}
             /\ Cardinality(KeysOf(RootResult, p))
                   = Cardinality(SurvivingNames)
    /\ \A p \in Discovered :
          walk[p].st = "done" =>
             DOMAIN walk[p].result = {<<p, r>> : r \in SurvivingNames}

C3_Witness ==
    /\ RootDone
    /\ \E p \in Discovered :
          /\ p # base_dir
          /\ Cardinality(KeysOf(RootResult, p)) = 2
          /\ \E k1 \in KeysOf(RootResult, p), k2 \in KeysOf(RootResult, p) :
                Failed(RootResult[k1]) /\ RootResult[k2] = PyBool(TRUE)

(***************************************************************************)
(* C4: in a tree without any repository, for every recurse, no walk        *)
(* raises, no fetch is started, every walk that returns returns the empty  *)
(* result set, and the process exits with a result set, having printed     *)
(* nothing.                                                                *)
(***************************************************************************)
NoRepository == \A p \in Paths : kind[p] # "repo"

C4_NoRepositoryEmptyResult ==
    NoRepository =>
       /\ \A p \in Paths :
             /\ walk[p].st # "raised"
             /\ walk[p].st = "done" => walk[p].result = EmptyDict
       /\ \A k \in Keys : fetch[k].st = "none"
       /\ proc.st = "exited" => proc.returned /\ proc.printed = EmptyDict

C4_Witness ==
    /\ NoRepository
    /\ RootDone
    /\ RootResult = EmptyDict
    /\ \E p \in probed : Len(p) = 2
    /\ proc.st = "exited"

(***************************************************************************)
(* C5: with recurse = k >= 0 no folder more than k levels below base_dir   *)
(* is probed and every key of every result has a path at most k levels     *)
(* below base_dir; with recurse = 0 and base_dir no repository, no folder  *)
(* is enumerated, no child is probed and the result is empty.              *)
(***************************************************************************)
C5_BudgetBoundsDiscovery ==
    /\ recurse >= 0 =>
          /\ \A p \in probed : Len(p) <= recurse
          /\ \A p \in globbed : Len(p) < recurse
          /\ \A p \in Paths :
                walk[p].st = "done" =>
                   \A k \in DOMAIN walk[p].result : Len(k[1]) <= recurse
    /\ (recurse = 0 /\ kind[base_dir] # "repo") =>
          /\ globbed = {}
          /\ probed \subseteq {base_dir}
          /\ \A p \in Paths \ {base_dir} : walk[p].st = "none"
          /\ walk[base_dir].st \in {"pending", "done"}
          /\ RootDone => RootResult = EmptyDict

C5_Witness ==
    /\ recurse = 1
    /\ RootDone
    /\ \E p \in Paths :
          /\ Len(p) = 2 /\ kind[p] = "repo" /\ kind[Parent(p)] = "dir"
          /\ ~ startswith_dot(name(Parent(p)))
          /\ Parent(p) \in probed
          /\ ~ In(name(Parent(p)), or_empty(exclude_dirnames))

(***************************************************************************)
(* C6: a child of base_dir whose name is in exclude_dirnames is never      *)
(* probed, nothing below it is probed or fetched and no result has a key   *)
(* below it; a directory deeper than the children of base_dir, whatever    *)
(* its name, is walked as soon as its parent is enumerated, provided it is *)
(* a directory whose name has no leading dot, and when the top-level call  *)
(* has returned it has been probed and, if it is a repository, its         *)
(* surviving remotes are keys of the result.                               *)
(***************************************************************************)
C6_ExclusionOnlyAtTopLevel ==
    /\ \A c \in Children(base_dir) :
          In(name(c), or_empty(exclude_dirnames)) =>
             /\ \A q \in Paths : IsUnder(q, c) =>
                   q \notin probed /\ walk[q].st = "none"
             /\ \A k \in Keys : IsUnder(k[1], c) => fetch[k].st = "none"
             /\ \A p \in Paths :
                   \A k \in DOMAIN walk[p].result : ~ IsUnder(k[1], c)
    /\ \A p \in Paths :
          (/\ Len(p) >= 2
           /\ Parent(p) \in globbed
           /\ is_dir(p)
           /\ ~ startswith_dot(name(p))) =>
             /\ walk[p].st # "none"
             /\ RootDone =>
                   /\ p \in probed
                   /\ kind[p] = "repo" =>
                         \A r \in SurvivingNames : <<p, r>> \in DOMAIN RootResult

C6_Witness ==
    /\ RootDone
    /\ \E p \in Paths :
          /\ Len(p) = 2
          /\ In(name(p), or_empty(exclude_dirnames))
          /\ kind[p] = "repo"
          /\ p \in probed
          /\ KeysOf(RootResult, p) # {}

(***************************************************************************)
(* C7: at every repository found, at every depth, a fetch is started for a *)
(* remote exactly if its name is in include_remotes, when that list is     *)
(* given, and not in exclude_remotes, when that list is given; a remote    *)
(* named in both lists is not fetched and is no key of the result.         *)
(***************************************************************************)
C7_RemoteFilters ==
    \A p \in Discovered :
       /\ \A r \in Range(remotes) :
             fetch[<<p, r>>].st # "none" <=> Survives(r)
       /\ walk[p].st = "done" =>
             \A r \in Range(remotes) :
                <<p, r>> \in DOMAIN walk[p].result <=> Survives(r)
       /\ \A r \in Range(remotes) :
             (/\ ~ include_remotes.is_none /\ In(r, include_remotes.items)
              /\ ~ exclude_remotes.is_none /\ In(r, exclude_remotes.items))
                => fetch[<<p, r>>].st = "none"

C7_Witness ==
    /\ ~ include_remotes.is_none /\ In("origin", include_remotes.items)
    /\ ~ exclude_remotes.is_none /\ In("origin", exclude_remotes.items)
    /\ RootDone
    /\ \E p \in Discovered : Len(p) = 2 /\ walk[p].st = "done"

(***************************************************************************)
(* C8: the call of fetch_remote on a returned sequence of indicators       *)
(* yields False (up to date) exactly if every indicator has the up-to-date *)
(* flag, bit 2, in its flags, True (updated) exactly if one lacks it, and  *)
(* False on the empty sequence.                                            *)
(***************************************************************************)
C8_UpToDateIffAllFlagged ==
    fetch[TheKey].st = "done" =>
       /\ fetch[TheKey].outcome = PyBool(FALSE)
             <=> \A i \in DOMAIN res : HasUpToDateFlag(res[i])
       /\ fetch[TheKey].outcome = PyBool(TRUE)
             <=> \E i \in DOMAIN res : ~ HasUpToDateFlag(res[i])
       /\ res = <<>> => fetch[TheKey].outcome = PyBool(FALSE)

C8_Witness ==
    /\ fetch[TheKey].st = "done"
    /\ Len(res) = 3
    /\ res[1] = 4 /\ res[2] = 12 /\ res[3] = 2
    /\ fetch[TheKey].outcome = PyBool(TRUE)

C10_MergeIsDisjointUnion ==
    /\ \A p \in Paths : \A c1 \in Subwalks(p), c2 \in Subwalks(p) :
          c1 # c2 => DOMAIN walk[c1].result \cap DOMAIN walk[c2].result = {}
    /\ \A p \in globbed :
          walk[p].st = "done" =>
             /\ DOMAIN walk[p].result
                   = UNION {DOMAIN walk[c].result : c \in Subwalks(p)}
             /\ Cardinality(DOMAIN walk[p].result) = SumOfSizes(Subwalks(p))
             /\ \A c \in Subwalks(p) : \A k \in DOMAIN walk[c].result :
                   walk[p].result[k] = walk[c].result[k]

C10_Witness ==
    /\ RootDone
    /\ base_dir \in globbed
    /\ \E c1 \in Subwalks(base_dir), c2 \in Subwalks(base_dir) :
          /\ c1 # c2
          /\ Cardinality(DOMAIN walk[c1].result) = 2
          /\ Cardinality(DOMAIN walk[c2].result) = 2
    /\ Cardinality(DOMAIN RootResult) = 4

(***************************************************************************)
(* C11: when main has printed its report, in quiet mode the report has a   *)
(* line for an entry of the result set exactly when the entry's outcome is *)
(* failed, and each such line carries the error detail; without quiet mode *)
(* the report has a line for every entry of the result set.                *)
(***************************************************************************)
C11_QuietReportsExactlyFailures ==
    (proc.st = "exited" /\ proc.entry = "main" /\ proc.returned) =>
        /\ proc.quiet =>
              /\ DOMAIN proc.printed =
                    {k \in DOMAIN RootResult : Failed(RootResult[k])}
              /\ \A k \in DOMAIN proc.printed :
                    /\ proc.printed[k].status = "failed"
                    /\ proc.printed[k].detail = RootResult[k].cls
        /\ ~ proc.quiet => DOMAIN proc.printed = DOMAIN RootResult

\* a quiet report of a result set with a failed and an updated entry
C11_Witness ==
    /\ proc.st = "exited" /\ proc.entry = "main" /\ proc.returned
    /\ proc.quiet
    /\ \E k1, k2 \in DOMAIN RootResult :
          /\ Failed(RootResult[k1])
          /\ ~ Failed(RootResult[k2])
          /\ k1 \in DOMAIN proc.printed
          /\ k2 \notin DOMAIN proc.printed

(***************************************************************************)
(* C12: a directory that is a repository root is never descended into,     *)
(* whatever the budget: its children are never enumerated, and nothing     *)
(* strictly inside it is probed, walked or fetched, nor is it the path of  *)
(* a key of any result.                                                    *)
(***************************************************************************)
C12_RepositoryNeverDescended ==
    \A p \in Paths :
        kind[p] = "repo" =>
            /\ p \notin globbed
            /\ \A q \in Paths :
                  (IsUnder(q, p) /\ q # p) =>
                      /\ q \notin probed
                      /\ walk[q].st = "none"
                      /\ \A r \in RemoteNames :
                            /\ fetch[<<q, r>>].st = "none"
                            /\ fetch_calls[<<q, r>>] = 0
                            /\ \A w \in Paths :
                                  <<q, r>> \notin DOMAIN walk[w].result

\* the walk is over with budget left for a repository that lies inside a
\* fetched repository
C12_Witness ==
    /\ RootDone
    /\ \E p, q \in Paths :
          /\ Parent(q) = p /\ Len(p) = 1
          /\ kind[p] = "repo" /\ kind[q] = "repo"
          /\ ~ startswith_dot(name(q))
          /\ recurse \notin {0, 1}
          /\ p \in probed
          /\ KeysOf(RootResult, p) # {}
          /\ q \notin probed

(***************************************************************************)
(* What the arguments and the tree alone determine                         *)
(***************************************************************************)
\* the budget of the top-level call allows a walk at this depth
WithinBudget(depth) == recurse < 0 \/ depth <= recurse

\* the directories the walk is to reach: every step from base_dir is a
\* directory that is not hidden, lies in no repository and, at the first
\* level, is not excluded by name
Reachable(p) ==
    /\ WithinBudget(Len(p))
    /\ kind[p] \in {"dir", "repo"}
    /\ \A i \in 1..Len(p) :
          /\ kind[SubSeq(p, 1, i - 1)] = "dir"
          /\ p[i][1] # "."
    /\ (Len(p) >= 1 /\ ~ exclude_dirnames.is_none) =>
          \A i \in DOMAIN exclude_dirnames.items :
              exclude_dirnames.items[i] # p[1]

ExpectedRepos == {p \in Paths : Reachable(p) /\ kind[p] = "repo"}

ExpectedKeys == ExpectedRepos \X SurvivingNames

(***************************************************************************)
(* C13: the final result set does not depend on the order in which the     *)
(* fetches and the subtree walks complete: whenever the top-level walk     *)
(* returns, its result is the mapping that the tree, the arguments and the *)
(* outcome of each remote's fetch determine, with one entry for each       *)
(* surviving remote of each repository within reach, whatever              *)
(* interleaving of starts and completions led there.                       *)
(***************************************************************************)
C13_ResultIndependentOfOrder ==
    RootDone => RootResult = [k \in ExpectedKeys |-> fetch[k].outcome]

\* two repositories with two fetches each, whose outcomes differ between
\* the repositories and between the remotes of each
C13_Witness ==
    /\ RootDone
    /\ \E p, q \in ExpectedRepos :
          /\ p # q
          /\ SurvivingNames = {"origin", "backup"}
          /\ Failed(RootResult[<<p, "origin">>])
          /\ RootResult[<<p, "backup">>] = PyBool(TRUE)
          /\ RootResult[<<q, "origin">>] = PyBool(FALSE)
          /\ Failed(RootResult[<<q, "backup">>])

(***************************************************************************)
(* C14: no fetch waits for another fetch: as long as the program runs, a   *)
(* fetch that was created and has not started can start at once, whatever  *)
(* the other fetches of its repository and of the other repositories are   *)
(* doing, and a walk that was created can start whatever fetches are in    *)
(* flight.  The state in which all fetches of all repositories are in      *)
(* flight together is C14_Witness.                                         *)
(***************************************************************************)
C14_NoFetchWaitsForASibling ==
    proc.st = "running" =>
        /\ \A k \in Keys : fetch[k].st = "pending" => ENABLED FetchStart(k)
        /\ \A p \in Paths : walk[p].st = "pending" => ENABLED WalkStart(p)

\* two repositories were discovered, and the fetches of both remotes of both
\* are in flight while none has completed
C14_Witness ==
    /\ Cardinality(ExpectedRepos) >= 2
    /\ SurvivingNames = {"origin", "backup"}
    /\ ExpectedRepos \subseteq probed
    /\ \A k \in ExpectedKeys : fetch[k].st = "in_flight"
    /\ \A k \in Keys : fetch[k].st # "done"

(***************************************************************************)
(* C15: in one call of fetch_remotes_in_subfolders the fetch primitive of  *)
(* a remote is never invoked twice; it is never invoked for a remote that  *)
(* the filters remove or whose repository the walk does not discover; and  *)
(* when the call returns it has been invoked exactly once for each         *)
(* surviving remote of each discovered repository.                         *)
(***************************************************************************)
C15_EachSurvivingRemoteFetchedOnce ==
    /\ \A k \in Keys :
          /\ fetch_calls[k] <= 1
          /\ fetch_calls[k] = 1 <=> fetch[k].st \in {"in_flight", "done"}
          /\ (k[1] \notin Discovered \/ k[2] \notin SurvivingNames) =>
                fetch_calls[k] = 0
    /\ RootDone =>
          /\ Discovered = ExpectedRepos
          /\ \A k \in Keys :
                fetch_calls[k] = IF k \in Discovered \X SurvivingNames
                                 THEN 1 ELSE 0

\* the call returned after one fetch of the surviving remote of a discovered
\* repository and none of its filtered remote, nor of the remotes of a
\* repository the budget left undiscovered
C15_Witness ==
    /\ RootDone
    /\ SurvivingNames = {"backup"}
    /\ \E p, q \in Paths :
          /\ p \in Discovered
          /\ kind[q] = "repo" /\ q \notin Discovered
          /\ ~ \E a \in Paths : kind[a] = "repo" /\ IsUnder(q, a) /\ a # q
          /\ fetch_calls[<<p, "backup">>] = 1
          /\ fetch_calls[<<p, "origin">>] = 0
          /\ fetch_calls[<<q, "backup">>] = 0

(***************************************************************************)
(* C16: fan-in is complete: when a call of fetch_remotes_in_subfolders has *)
(* returned a result set, every walk started below its folder has returned *)
(* and every fetch started at or below its folder has completed; for the   *)
(* top-level call, no walk and no fetch anywhere is still under way.       *)
(***************************************************************************)
C16_FanInComplete ==
    \A p \in Paths :
        walk[p].st = "done" =>
            /\ \A q \in Paths :
                  IsUnder(q, p) => walk[q].st \in {"none", "done"}
            /\ \A k \in Keys :
                  IsUnder(k[1], p) => fetch[k].st \in {"none", "done"}

\* the top-level call returned after two subfolder walks, each of which had
\* started two fetches
C16_Witness ==
    /\ RootDone
    /\ \E p, q \in Subwalks(base_dir) :
          /\ p # q
          /\ \A k \in {p, q} \X RemoteNames :
                fetch_calls[k] = 1 /\ fetch[k].st = "done"

(***************************************************************************)
(* C17: at every level of the walk a child directory whose name begins     *)
(* with "." is never probed nor descended into, and a child entry that is  *)
(* not a directory is never probed, for every value of exclude_dirnames.   *)
(***************************************************************************)
C17_HiddenAndFilesNeverProbed ==
    \A p \in Paths \ {base_dir} :
        (name(p)[1] = "." \/ kind[p] \notin {"dir", "repo"}) =>
            /\ p \notin probed
            /\ p \notin globbed
            /\ walk[p].st = "none"
            /\ \A r \in RemoteNames : fetch_calls[<<p, r>>] = 0

\* below the top level: the walk listed a subfolder that holds a hidden
\* repository and returned without probing it, with budget left for it and
\* with a list of excluded names given
C17_Witness ==
    /\ RootDone
    /\ ~ exclude_dirnames.is_none
    /\ \E p \in Paths :
          /\ Len(p) = 2
          /\ kind[p] = "repo"
          /\ name(p)[1] = "."
          /\ Parent(p) \in globbed
          /\ p \notin probed

\* the path object that the key k carries: the folder its walk was given
KeyPath(k) == walk[k[1]].folder

(***************************************************************************)
(* C18, as stated: every key of the result set carries an absolute path,   *)
(* also when base_dir was passed as a relative path.                       *)
(***************************************************************************)
C18_KeysAbsolute ==
    RootDone => \A k \in DOMAIN RootResult : KeyPath(k).absolute

(***************************************************************************)
(* C18, amended: every key of the result set carries the path of its       *)
(* repository as base_dir joined with the components below it; the path is *)
(* absolute exactly when base_dir was passed as an absolute path, so the   *)
(* key of a call on a relative base_dir is a relative path.                *)
(***************************************************************************)
C18_KeysPrefixedByBaseDirAsPassed ==
    RootDone =>
        \A k \in DOMAIN RootResult :
            /\ KeyPath(k).parts = k[1]
            /\ KeyPath(k).absolute <=> walk[base_dir].folder.absolute

\* a call on a relative base_dir returned a key of a repository two levels
\* down, whose path is relative
C18_Witness ==
    /\ RootDone
    /\ ~ walk[base_dir].folder.absolute
    /\ \E k \in DOMAIN RootResult :
          /\ Len(k[1]) = 2
          /\ KeyPath(k) = Path(FALSE, k[1])

\* the top-level call has returned or raised, or the program has left it
Terminated == walk[base_dir].st \in {"done", "raised"} \/ proc.st = "exited"

(***************************************************************************)
(* C19: on every tree of the bounds and for every recurse, negative ones   *)
(* included, when every step that can be taken is eventually taken (a      *)
(* started fetch returns or raises) the top-level call of                  *)
(* fetch_remotes_in_subfolders eventually terminates; and with a negative  *)
(* recurse the descent is limited only by the tree and by repository       *)
(* roots: a call that returned has probed every directory within reach at  *)
(* every depth.                                                            *)
(***************************************************************************)
C19_WalkTerminates ==
    /\ <>Terminated
    /\ [](RootDone /\ recurse < 0 =>
             \A p \in Paths : Reachable(p) => p \in probed)

\* a call with a negative recurse returned after a probe at the bottom of the
\* tree
C19_Witness ==
    /\ recurse < 0
    /\ RootDone
    /\ \E p \in probed : Len(p) = MaxDepth /\ kind[p] = "repo"
                         /\ KeysOf(RootResult, p) # {}

====
